---- MODULE Spec2Model ----
(***************************************************************************)
(* Prompt Companion, frontend/src/App.js: the App component as a state     *)
(* machine.  The state is the component's useState cells, the two          *)
(* localStorage records, the fetches that have been issued and not yet     *)
(* settled (each one a suspended handleSubmit closure) and the wall clock. *)
(* The prompt cell is the text the form hands to handleSubmit and is that  *)
(* action's input; result, toast and theme are never read back.            *)
(* Every event handler, and every continuation of handleSubmit after its   *)
(* await, is one action; the useEffect write-backs that the handler's      *)
(* state changes trigger are part of the same action, and so is the        *)
(* render that follows, which mounts the TypingAnimation of the last       *)
(* message.                                                                *)
(* The two exports read the state and write a document; they are the       *)
(* actions of a specification of their own, ExportSpec.                    *)
(***************************************************************************)
EXTENDS Integers, Sequences, FiniteSets, TLC

\* ------------------------------------------------------------------ bounds
MaxSubmits == 2     \* handleSubmit calls that get past the empty-prompt guard
MaxBlocks == 3      \* messages of a transcript that is exported

\* --------------------------------------------------------------- constants
\* const sections = [...]: the ids, in catalog order
sections == <<"health", "banking", "general", "movies", "music">>

SectionIds == {sections[i] : i \in 1..Len(sections)}

\* the sections the user opens and the server redirects to
VisitedIds == {"banking", "general"}

\* null / undefined for currentSection (both falsy)
NoSection == "null"

\* an id that localStorage or the server may name and the catalog lacks
RemovedId == "removed"

\* a property that is absent (undefined) in a payload
UndefinedId == "undefined"
Undefined == <<"undefined">>

\* texts are tuples of one-character strings
Space == " "
PromptInputs == {<<>>, <<Space>>, <<Space, "a">>}
ResponseText == <<"Y">>

\* ----------------------------------------------------------------- helpers
\* String.prototype.trim, as handleSubmit uses it
RECURSIVE TrimStart(_)
TrimStart(s) ==
  IF s # <<>> /\ Head(s) = Space THEN TrimStart(Tail(s)) ELSE s

RECURSIVE TrimEnd(_)
TrimEnd(s) ==
  IF s # <<>> /\ s[Len(s)] = Space THEN TrimEnd(SubSeq(s, 1, Len(s) - 1)) ELSE s

trim(s) == TrimEnd(TrimStart(s))

\* sections.find(s => s.id === id); NoSection when find returns undefined
find(id) == IF id \in SectionIds THEN id ELSE NoSection

EmptyHistory == [k \in {} |-> <<>>]

\* prev[id] || []
Get(h, id) == IF id \in DOMAIN h THEN h[id] ELSE <<>>

\* { ...prev, [id]: value }
Put(h, id, value) == [k \in DOMAIN h \cup {id} |-> IF k = id THEN value ELSE h[k]]

Message(role, content, timestamp) ==
  [role |-> role, content |-> content, timestamp |-> timestamp]

Remove(q, i) == SubSeq(q, 1, i - 1) \o SubSeq(q, i + 1, Len(q))

\* ------------------------------------------------------------------- state
VARIABLES
  mounted,          \* the mount effects have run
  currentSection,   \* useState(null): a section id or NoSection
  isLoading,        \* useState(false)
  isTyping,         \* useState(false)
  error,            \* useState(null): TRUE when a notice is set
  chatHistory,      \* useState({}): section id -> sequence of messages
  lsSection,        \* localStorage 'currentSection': an id or NoSection
  lsChat,           \* localStorage 'chatHistory': [present, value]
  inflight,         \* handleSubmit calls suspended at await fetch(...)
  clock,            \* what new Date() reads: each reading is later than the last
  submits,          \* calls of handleSubmit that got past its guard
  last,             \* the handler that ran last, with its inputs
  crashed,          \* an effect threw and React unmounted the tree
  reveal,           \* the mounted TypingAnimation: its props, state and timer
  stale,            \* timers left pending by unmounted TypingAnimations
  output,           \* the document the step has handed to the browser
  savedChat         \* the chatHistory record the load effect was given

vars == <<mounted, currentSection, isLoading, isTyping, error,
          chatHistory, lsSection, lsChat, inflight, clock, last, submits,
          crashed, reveal, stale, output, savedChat>>

\* ---------------------------------------------------- requests and outcomes
\* what a suspended handleSubmit holds in its closure
Request(section, userMessage) == [section |-> section, userMessage |-> userMessage]

NoRequest == Request(NoSection, Message("none", <<>>, 0))

\* how the awaited fetch and res.json() settle
Outcome(kind, response, redirect, section) ==
  [kind |-> kind, response |-> response, redirect |-> redirect, section |-> section]

NoOutcome == Outcome("none", Undefined, FALSE, UndefinedId)

\* fetch rejects; res.ok is false; res.json() rejects
FailureOutcomes ==
  {Outcome(k, Undefined, FALSE, UndefinedId) : k \in {"reject", "status", "badjson"}}

\* a parsed payload { response, redirect, section }, any field possibly absent
SuccessOutcomes ==
  {Outcome("ok", r, FALSE, UndefinedId) : r \in {ResponseText, Undefined}}
  \cup {Outcome("ok", ResponseText, TRUE, t) : t \in VisitedIds \cup {RemovedId, UndefinedId}}
  \cup {Outcome("ok", Undefined, TRUE, "banking")}

Outcomes == FailureOutcomes \cup SuccessOutcomes

Last(op, arg, req, out) == [op |-> op, arg |-> arg, req |-> req, out |-> out]

\* ------------------------------------------------------------ localStorage
Stored(present, value) == [present |-> present, value |-> value, parses |-> TRUE]

\* a record that JSON.parse rejects
Unparseable == [present |-> TRUE, value |-> EmptyHistory, parses |-> FALSE]

\* useEffect(..., [currentSection]): the id is written when there is a section
SaveSection(section, stored) == IF section # NoSection THEN section ELSE stored

\* the effect without its dependency: the first render's {} is what is saved
SaveChatOnce(h) == Stored(TRUE, EmptyHistory)

\* useEffect(..., [chatHistory]): JSON.stringify of the whole mapping
SaveChat(h) == Stored(TRUE, h)

\* the filter with a length test: if (parsedHistory[sec.id]?.length)
filteredNonEmpty(parsedHistory) ==
  [k \in {s \in SectionIds : s \in DOMAIN parsedHistory /\ parsedHistory[s] # <<>>}
     |-> parsedHistory[k]]

\* the load effect's filter: catalog ids whose entry is truthy (any array is)
filteredHistory(parsedHistory) ==
  [k \in {s \in SectionIds : s \in DOMAIN parsedHistory} |-> parsedHistory[k]]

\* transcripts a previous session may have left behind
Old(role, content) == Message(role, content, 0)

PersistedHistories ==
  { [k \in {"health", "banking", RemovedId} |->
       CASE k = "health" -> <<>>
         [] k = "banking" -> <<Old("user", <<"a">>), Old("assistant", ResponseText)>>
         [] OTHER -> <<Old("user", <<"a">>)>>] }

\* ------------------------------------------------------ the typing reveal
\* the instance of TypingAnimation: its text prop, its two states, whether
\* its timer is pending, and the message whose bubble holds it
Reveal(active, section, index, text, displayedText, currentIndex, timer) ==
  [active |-> active, section |-> section, index |-> index, text |-> text,
   displayedText |-> displayedText, currentIndex |-> currentIndex, timer |-> timer]

NoReveal == Reveal(FALSE, NoSection, 0, <<>>, <<>>, 0, FALSE)

\* some bubble gets isLast: the chat is rendered, isTyping, and there is a
\* message at index length - 1
typed(section, typing, h) ==
  section # NoSection /\ typing /\ Get(h, section) # <<>>

\* the effect's test: if (currentIndex < text.length)
scheduled(currentIndex, text) == currentIndex < Len(text)

\* text.length throws when the content is undefined
unreadable(text) == text = Undefined

\* a mount: useState('') and useState(0), then the effect
TypingAnimation(section, index, text) ==
  Reveal(TRUE, section, index, text, <<>>, 0, scheduled(0, text))

\* an effect without the cleanup: the timer outlives the instance
cleanupNone(r) == IF r.timer THEN 1 ELSE 0

\* return () => clearTimeout(timer): no timer outlives the instance
cleanup(r) == 0

\* a render of App. TypingAnimation and MessageBubble are declared in the
\* body of App, so every render of App unmounts the instance there is and
\* mounts a new one on the last message.
rendered(section, typing, h) ==
  LET index == Len(Get(h, section))
      text == Get(h, section)[index].content
  IN IF typed(section, typing, h) /\ ~unreadable(text)
     THEN TypingAnimation(section, index, text)
     ELSE NoReveal

\* the effect of the mounted instance throws
effectThrows(section, typing, h) ==
  typed(section, typing, h) /\ unreadable(Get(h, section)[Len(Get(h, section))].content)

Render ==
  /\ crashed' = effectThrows(currentSection', isTyping', chatHistory')
  /\ reveal' = rendered(currentSection', isTyping', chatHistory')
  /\ stale' = cleanup(reveal)

\* -------------------------------------------------------------- documents
Output(kind, text, lines, draws) ==
  [kind |-> kind, text |-> text, lines |-> lines, draws |-> draws]

NoOutput == Output("none", <<>>, <<>>, <<>>)

\* the chatHistory record at startup: absent, unparseable, or a mapping
StartupRecords ==
  {Stored(FALSE, EmptyHistory), Unparseable}
    \cup {Stored(TRUE, h) : h \in PersistedHistories}

\* -------------------------------------------------------------------- Init
Init ==
  /\ mounted = FALSE
  /\ currentSection = NoSection
  /\ isLoading = FALSE
  /\ isTyping = FALSE
  /\ error = FALSE
  /\ chatHistory = EmptyHistory
  /\ lsSection \in {NoSection, "general", RemovedId}
  /\ lsChat \in StartupRecords
  /\ inflight = <<>>
  /\ clock = 0
  /\ submits = 0
  /\ last = Last("init", <<>>, NoRequest, NoOutcome)
  /\ crashed = FALSE
  /\ reveal = NoReveal
  /\ stale = 0
  /\ output = NoOutput
  /\ savedChat = lsChat

\* ----------------------------------------------------------------- actions
\* the three effects of the first commit, then those of the commit that the
\* load effect's state changes cause
\* JSON.parse(savedChat) throws out of the load effect
parseThrows(stored) == stored.present /\ ~stored.parses

\* the three effects of a first commit whose load effect throws: the tree is
\* unmounted with the state of the first render, and the save effect of that
\* commit has run or not, as the version of React has it
MountThrows ==
  /\ ~mounted
  /\ parseThrows(lsChat)
  /\ mounted' = TRUE
  /\ crashed' = TRUE
  /\ lsChat' \in {lsChat, SaveChat(chatHistory)}
  /\ last' = Last("mount", <<>>, NoRequest, NoOutcome)
  /\ UNCHANGED savedChat
  /\ UNCHANGED <<currentSection, chatHistory, lsSection, isLoading, isTyping,
                 error, inflight, clock, submits, reveal, stale, output>>

Mount ==
  /\ ~mounted
  /\ ~parseThrows(lsChat)
  /\ mounted' = TRUE
  /\ currentSection' = IF find(lsSection) # NoSection THEN find(lsSection)
                       ELSE currentSection
  /\ chatHistory' = IF lsChat.present THEN filteredHistory(lsChat.value)
                    ELSE chatHistory
  /\ lsSection' = SaveSection(currentSection', lsSection)
  /\ lsChat' = SaveChat(chatHistory')
  /\ last' = Last("mount", <<>>, NoRequest, NoOutcome)
  /\ UNCHANGED savedChat
  /\ UNCHANGED <<isLoading, isTyping, error, inflight, clock, submits, output>>
  /\ Render

\* the section list is what is rendered while there is no current section
handleSectionSelect(section) ==
  /\ mounted /\ ~crashed
  /\ currentSection = NoSection
  /\ currentSection' = section
  /\ error' = FALSE
  /\ lsSection' = SaveSection(currentSection', lsSection)
  /\ last' = Last("select", <<>>, NoRequest, NoOutcome)
  /\ UNCHANGED savedChat
  /\ UNCHANGED <<mounted, isLoading, isTyping, chatHistory, lsChat, inflight,
                 clock, submits, output>>
  /\ Render

handleBackToSections ==
  /\ mounted /\ ~crashed
  /\ currentSection # NoSection
  /\ currentSection' = NoSection
  /\ error' = FALSE
  /\ lsSection' = SaveSection(currentSection', lsSection)
  /\ last' = Last("back", <<>>, NoRequest, NoOutcome)
  /\ UNCHANGED savedChat
  /\ UNCHANGED <<mounted, isLoading, isTyping, chatHistory, lsChat, inflight,
                 clock, submits, output>>
  /\ Render

\* the transcript removed instead of emptied: delete prev[currentSection.id]
clearedByDelete(prev, section) == [k \in DOMAIN prev \ {section} |-> prev[k]]

\* { ...prev, [currentSection.id]: [] }
cleared(prev, section) == Put(prev, section, <<>>)

clearChat ==
  /\ mounted /\ ~crashed
  /\ currentSection # NoSection
  /\ chatHistory' = cleared(chatHistory, currentSection)
  /\ lsChat' = SaveChat(chatHistory')
  /\ last' = Last("clear", <<>>, NoRequest, NoOutcome)
  /\ UNCHANGED savedChat
  /\ UNCHANGED <<mounted, currentSection, isLoading, isTyping, error,
                 lsSection, inflight, clock, submits, output>>
  /\ Render

\* the guard without trim: if (!prompt) return;
rejectedUntrimmed(prompt) == prompt = <<>>

\* if (!prompt.trim()) return;
rejected(prompt) == trim(prompt) = <<>>

\* the optimistic write: [...(prev[id] || []), userMessage]
withUserMessage(prev, section, userMessage) ==
  Put(prev, section, Append(Get(prev, section), userMessage))

\* handleSubmit up to its await
handleSubmit(prompt) ==
  /\ mounted /\ ~crashed
  /\ currentSection # NoSection
  /\ last' = Last("submit", prompt, NoRequest, NoOutcome)
  /\ UNCHANGED savedChat
  /\ output' = output
  /\ IF rejected(prompt)
     THEN UNCHANGED <<mounted, currentSection, isLoading, isTyping, error,
                      chatHistory, lsSection, lsChat, inflight, clock, submits,
                      crashed, reveal, stale>>
     ELSE LET userMessage == Message("user", prompt, clock) IN
          /\ submits < MaxSubmits
          /\ submits' = submits + 1
          /\ isLoading' = TRUE
          /\ isTyping' = TRUE
          /\ error' = FALSE
          /\ chatHistory' = withUserMessage(chatHistory, currentSection, userMessage)
          /\ lsChat' = SaveChat(chatHistory')
          /\ inflight' = Append(inflight, Request(currentSection, userMessage))
          /\ clock' = clock + 1
          /\ UNCHANGED <<mounted, currentSection, lsSection>>
          /\ Render

\* the try block without the res.ok check
throwsUnchecked(out) ==
  \/ out.kind \notin {"ok", "status"}
  \/ out.redirect /\ find(out.section) = NoSection

\* what the try block throws on: a rejected fetch, !res.ok, a rejected
\* res.json(), and newSection.name when find returned undefined
throws(out) ==
  \/ out.kind # "ok"
  \/ out.redirect /\ find(out.section) = NoSection

\* the answer appended by itself: [...(prev[id] || []), aiMessage]
withAnswerAlone(prev, section, userMessage, aiMessage) ==
  Put(prev, section, Append(Get(prev, section), aiMessage))

\* the pair written over the transcript: [userMessage, aiMessage]
withAnswerOnly(prev, section, userMessage, aiMessage) ==
  Put(prev, section, <<userMessage, aiMessage>>)

\* both branches: [...(prev[id] || []), userMessage, aiMessage]
withAnswer(prev, section, userMessage, aiMessage) ==
  Put(prev, section, Get(prev, section) \o <<userMessage, aiMessage>>)

\* the section read when the answer arrives instead of the one the handler
\* closed over
answerSectionShown(req, out) ==
  IF out.redirect THEN find(out.section) ELSE currentSection

\* the redirect ignored: always currentSection.id
answerSectionOfSubmit(req, out) == req.section

\* the section the answer goes to: newSection.id or currentSection.id
answerSection(req, out) ==
  IF out.redirect THEN find(out.section) ELSE req.section

\* setCurrentSection(newSection) in the redirect branch, before the throw
sectionAfter(section, out) ==
  IF out.kind = "ok" /\ out.redirect THEN find(out.section) ELSE section

\* the flags lowered at the end of try instead of in finally
releasedInTry(flag, out) == IF throws(out) THEN flag ELSE FALSE

\* finally { setIsLoading(false); setIsTyping(false); }
released(flag, out) == FALSE

\* handleSubmit from the await on: try, catch and finally
Settle(i, out) ==
  LET req == inflight[i]
      userMessage == req.userMessage
      aiMessage == Message("assistant", out.response, clock)
  IN
  /\ ~crashed
  /\ inflight' = Remove(inflight, i)
  /\ currentSection' = sectionAfter(currentSection, out)
  /\ chatHistory' = IF throws(out) THEN chatHistory
                    ELSE withAnswer(chatHistory, answerSection(req, out),
                                    userMessage, aiMessage)
  /\ error' = IF throws(out) THEN TRUE ELSE error
  /\ isLoading' = released(isLoading, out)
  /\ isTyping' = released(isTyping, out)
  /\ lsSection' = SaveSection(currentSection', lsSection)
  /\ lsChat' = IF throws(out) THEN lsChat ELSE SaveChat(chatHistory')
  /\ last' = Last("settle", <<>>, req, out)
  /\ UNCHANGED savedChat
  /\ clock' = IF throws(out) THEN clock ELSE clock + 1
  /\ UNCHANGED <<mounted, submits, output>>
  /\ Render

\* the state updaters of the timer: prev + text[currentIndex] and prev + 1
advancedFromStart(r) ==
  Reveal(TRUE, r.section, r.index, r.text,
         Append(r.displayedText, r.text[1]), r.currentIndex + 1,
         scheduled(r.currentIndex + 1, r.text))

advanced(r) ==
  Reveal(TRUE, r.section, r.index, r.text,
         Append(r.displayedText, r.text[r.currentIndex + 1]), r.currentIndex + 1,
         scheduled(r.currentIndex + 1, r.text))

\* the timer of the TypingAnimation fires, and the effect runs again
tick ==
  /\ mounted /\ ~crashed
  /\ reveal.active /\ reveal.timer
  /\ reveal' = advanced(reveal)
  /\ last' = Last("tick", <<>>, NoRequest, NoOutcome)
  /\ UNCHANGED savedChat
  /\ UNCHANGED <<mounted, currentSection, isLoading, isTyping, error,
                 chatHistory, lsSection, lsChat, inflight, clock, submits,
                 crashed, stale, output>>

\* a render of App that changes none of the modelled state: a key typed into
\* the textarea, a toast shown or hidden
setPrompt ==
  /\ mounted /\ ~crashed
  /\ currentSection # NoSection
  /\ reveal.active
  /\ last' = Last("type", <<>>, NoRequest, NoOutcome)
  /\ UNCHANGED savedChat
  /\ UNCHANGED <<mounted, currentSection, isLoading, isTyping, error,
                 chatHistory, lsSection, lsChat, inflight, clock, submits,
                 output>>
  /\ Render

Next ==
  \/ Mount
  \/ MountThrows
  \/ tick
  \/ setPrompt
  \/ \E section \in VisitedIds : handleSectionSelect(section)
  \/ handleBackToSections
  \/ clearChat
  \/ \E text \in PromptInputs : handleSubmit(text)
  \/ \E i \in 1..Len(inflight), out \in Outcomes : Settle(i, out)

Spec == Init /\ [][Next]_vars

\* ----------------------------------------------------------------- exports
\* new Date(msg.timestamp).toLocaleString()
toLocaleString(timestamp) == ToString(timestamp)

\* Array.prototype.join
RECURSIVE join(_, _)
join(blocks, separator) ==
  IF blocks = <<>> THEN <<>>
  ELSE IF Len(blocks) = 1 THEN blocks[1]
  ELSE blocks[1] \o separator \o join(Tail(blocks), separator)

\* `[${timestamp}] ${msg.role === 'user' ? 'You' : 'AI'}: ${msg.content}`
block(msg) ==
  <<"[", toLocaleString(msg.timestamp), "] ",
    IF msg.role = "user" THEN "You" ELSE "AI", ": ">> \o msg.content

\* the blocks joined by a single line break: .join('\n')
contentByLines(sectionHistory) ==
  join([i \in 1..Len(sectionHistory) |-> block(sectionHistory[i])], <<"\n">>)

\* sectionHistory.map(...).join('\n\n')
content(sectionHistory) ==
  join([i \in 1..Len(sectionHistory) |-> block(sectionHistory[i])], <<"\n\n">>)

exportAsTXT ==
  /\ mounted /\ ~crashed
  /\ last' = Last("txt", <<>>, NoRequest, NoOutcome)
  /\ output' = IF currentSection = NoSection THEN NoOutput
               ELSE Output("txt", content(Get(chatHistory, currentSection)), <<>>, <<>>)
  /\ UNCHANGED <<mounted, currentSection, isLoading, isTyping, error,
                 chatHistory, lsSection, lsChat, inflight, clock, submits,
                 savedChat>>
  /\ IF currentSection = NoSection
     THEN UNCHANGED <<crashed, reveal, stale>>
     ELSE Render

\* the offsets of exportAsPDF
PageTop == 20
TitleStep == 20
PageBottom == 270
HeaderStep == 10
LineStep == 7
BlockGap == 10

\* one doc.text call: what is drawn, the offset y had before the page test,
\* the page and the offset it is drawn at
Draw(what, before, page, y) ==
  [what |-> what, before |-> before, page |-> page, y |-> y]

\* the page test taken at the bound: if (y >= 270)
breaksAtBound(y) == y >= PageBottom

\* if (y > 270)
breaks(y) == y > PageBottom

\* { doc.addPage(); y = 20; }
pageAfter(page, y) == IF breaks(y) THEN page + 1 ELSE page
offsetAfter(y) == IF breaks(y) THEN PageTop ELSE y

\* lines.forEach(line => ...), for n lines
RECURSIVE drawLines(_, _, _)
drawLines(n, page, y) ==
  IF n = 0 THEN <<>>
  ELSE <<Draw("line", y, pageAfter(page, y), offsetAfter(y))>>
         \o drawLines(n - 1, pageAfter(page, y), offsetAfter(y) + LineStep)

\* sectionHistory.forEach(msg => ...), for the line counts of the messages
RECURSIVE drawMessages(_, _, _)
drawMessages(lineCounts, page, y) ==
  IF lineCounts = <<>> THEN <<>>
  ELSE LET header == Draw("header", y, pageAfter(page, y), offsetAfter(y))
           lines == drawLines(Head(lineCounts), header.page, header.y + HeaderStep)
           end == IF lines = <<>> THEN header ELSE lines[Len(lines)]
           step == IF lines = <<>> THEN HeaderStep ELSE LineStep
       IN <<header>> \o lines
            \o drawMessages(Tail(lineCounts), end.page, end.y + step + BlockGap)

\* the body of exportAsPDF from let y = 20 to the end of the forEach
layout(lineCounts) ==
  <<Draw("title", PageTop, 1, PageTop)>>
    \o drawMessages(lineCounts, 1, PageTop + TitleStep)

\* how many lines doc.splitTextToSize may return for a message
LineCounts == {1, 30, 31, 35}

exportAsPDF(lineCounts) ==
  /\ mounted /\ ~crashed
  /\ last' = Last("pdf", <<>>, NoRequest, NoOutcome)
  /\ output' = IF currentSection = NoSection THEN NoOutput
               ELSE Output("pdf", <<>>, lineCounts, layout(lineCounts))
  /\ UNCHANGED <<mounted, currentSection, isLoading, isTyping, error,
                 chatHistory, lsSection, lsChat, inflight, clock, submits,
                 savedChat>>
  /\ IF currentSection = NoSection
     THEN UNCHANGED <<crashed, reveal, stale>>
     ELSE Render

\* transcripts of the section that is exported
ExportedTranscripts ==
  LET u == Message("user", <<Space, "a">>, 0)
      a == Message("assistant", ResponseText, 1)
      v == Message("user", <<"a">>, 2)
  IN {t \in {<<>>, <<u>>, <<u, a>>, <<u, u, a>>, <<u, u, a, v>>} : Len(t) <= MaxBlocks}

\* a session with a transcript in 'general', shown or not, a request pending
\* or not
ExportInit ==
  /\ mounted = TRUE
  /\ crashed = FALSE
  /\ currentSection \in {NoSection, "general"}
  /\ chatHistory \in {Put(EmptyHistory, "general", t) : t \in ExportedTranscripts}
  /\ isLoading \in BOOLEAN
  /\ isTyping = isLoading
  /\ error = FALSE
  /\ inflight = IF isLoading
                THEN <<Request("general", Message("user", <<Space, "a">>, 0))>>
                ELSE <<>>
  /\ submits = Len(inflight)
  /\ clock = 3
  /\ lsSection = currentSection
  /\ lsChat = SaveChat(chatHistory)
  /\ savedChat = Stored(FALSE, EmptyHistory)
  /\ last = Last("mount", <<>>, NoRequest, NoOutcome)
  /\ reveal = rendered(currentSection, isTyping, chatHistory)
  /\ stale = 0
  /\ output = NoOutput

ExportNext ==
  \/ exportAsTXT
  \/ \E lineCounts \in [1..Len(Get(chatHistory, currentSection)) -> LineCounts] :
       exportAsPDF(lineCounts)

ExportSpec == ExportInit /\ [][ExportNext]_vars

\* ------------------------------------------------------------ properties
\* what the properties say about the step that has just been taken
Submitted == last'.op = "submit"
Settled == last'.op = "settle"
Cleared == last'.op = "clear"
Mounted == last'.op = "mount"

IsBlank(text) == \A i \in 1..Len(text) : text[i] = Space

IsPrefix(s, t) == Len(s) <= Len(t) /\ SubSeq(t, 1, Len(s)) = s

EndsWith(s, t) == Len(t) <= Len(s) /\ SubSeq(s, Len(s) - Len(t) + 1, Len(s)) = t

\* the roles and contents of a transcript, timestamps left out
Said(s) == [i \in 1..Len(s) |-> <<s[i].role, s[i].content>>]

\* where the assistant messages are: (section, index)
Assistants(h) ==
  UNION {{<<k, i>> : i \in {j \in 1..Len(h[k]) : h[k][j].role = "assistant"}} :
           k \in DOMAIN h}

\* C1: a submit made while an earlier submit's fetch has not settled changes
\* no transcript and issues no second fetch, whoever calls it
C1_SecondSubmitIsNoOp ==
  [][(Submitted /\ inflight # <<>>)
       => (chatHistory' = chatHistory /\ inflight' = inflight)]_vars

\* a success that redirects from req.section to another catalog section
RedirectedElsewhere(req, out) ==
  /\ out.kind = "ok"
  /\ out.redirect
  /\ out.section \in SectionIds
  /\ out.section # req.section

\* C2 as claimed: after a redirect from S to T the transcript of T ends with
\* (user, X), (assistant, Y), the transcript of S ends with (user, X), and T
\* is the current section
C2_RedirectAsClaimed ==
  [][(Settled /\ RedirectedElsewhere(last'.req, last'.out)) =>
       LET req == last'.req
           out == last'.out
           X == req.userMessage.content
       IN /\ EndsWith(Said(Get(chatHistory', out.section)),
                      <<<<"user", X>>, <<"assistant", out.response>>>>)
          /\ EndsWith(Said(Get(chatHistory', req.section)), <<<<"user", X>>>>)
          /\ currentSection' = out.section]_vars

\* C2 amended: after a redirect from S to T the transcript of T ends with
\* (user, X), (assistant, Y), T is the current section, and the transcript
\* of S is what it was when the answer arrived, so that it ends with the
\* user message of the submit whenever it still did at that moment
C2_Redirect ==
  [][(Settled /\ RedirectedElsewhere(last'.req, last'.out)) =>
       LET req == last'.req
           out == last'.out
           X == req.userMessage.content
       IN /\ EndsWith(Said(Get(chatHistory', out.section)),
                      <<<<"user", X>>, <<"assistant", out.response>>>>)
          /\ Len(Get(chatHistory', out.section)) = Len(Get(chatHistory, out.section)) + 2
          /\ Get(chatHistory', req.section) = Get(chatHistory, req.section)
          /\ (EndsWith(Get(chatHistory, req.section), <<req.userMessage>>)
                => EndsWith(Get(chatHistory', req.section), <<req.userMessage>>))
          /\ currentSection' = out.section]_vars

C2_Witness ==
  /\ last.op = "settle"
  /\ RedirectedElsewhere(last.req, last.out)
  /\ last.out.response = ResponseText
  /\ currentSection = last.out.section
  /\ EndsWith(Get(chatHistory, last.req.section), <<last.req.userMessage>>)
  /\ EndsWith(Said(Get(chatHistory, last.out.section)),
              <<<<"user", last.req.userMessage.content>>, <<"assistant", ResponseText>>>>)

\* a success that answers in the section of the submit
AnsweredInPlace(out) == out.kind = "ok" /\ ~out.redirect /\ out.response = ResponseText

\* C3: on a same-section answer the completion appends one message, the
\* assistant's, so that the user message of the submit is held once
C3_AnswerAppendsOneMessage ==
  [][(Settled /\ AnsweredInPlace(last'.out)) =>
       LET S == last'.req.section
       IN /\ Len(Get(chatHistory', S)) = Len(Get(chatHistory, S)) + 1
          /\ IsPrefix(Get(chatHistory, S), Get(chatHistory', S))
          /\ EndsWith(Said(Get(chatHistory', S)), <<<<"assistant", ResponseText>>>>)]_vars

\* the fetch rejected, or the status was not a success
Failed(out) == out.kind \in {"reject", "status"}

\* C4 as claimed: after a failed call the transcript of S ends with the user
\* message X, no assistant message was appended and the error notice is set
C4_FailureAsClaimed ==
  [][(Settled /\ Failed(last'.out)) =>
       /\ EndsWith(Get(chatHistory', last'.req.section), <<last'.req.userMessage>>)
       /\ Assistants(chatHistory') = Assistants(chatHistory)
       /\ error']_vars

\* C4 amended: a failed call appends nothing to any transcript and sets the
\* error notice; the transcript of S still ends with the user message X
\* whenever it did when the call failed
C4_Failure ==
  [][(Settled /\ Failed(last'.out)) =>
       /\ chatHistory' = chatHistory
       /\ (EndsWith(Get(chatHistory, last'.req.section), <<last'.req.userMessage>>)
             => EndsWith(Get(chatHistory', last'.req.section), <<last'.req.userMessage>>))
       /\ error']_vars

C4_Witness ==
  /\ last.op = "settle"
  /\ last.out.kind = "status"
  /\ error
  /\ EndsWith(Get(chatHistory, last.req.section), <<last.req.userMessage>>)
  /\ Assistants(chatHistory) = {}

\* C5: the pending flag is raised when a submit starts, is lowered by every
\* way the call can settle (answer, redirect, bad status, rejected fetch,
\* exception while reading the answer), and is down whenever no call is
\* outstanding
C5_PendingReleased ==
  /\ [][(Submitted /\ ~IsBlank(last'.arg)) => isLoading']_vars
  /\ [][Settled => ~isLoading']_vars
  /\ [](inflight = <<>> => ~isLoading)

C5_Witness ==
  /\ last.op = "settle"
  /\ last.out.kind = "ok"
  /\ throws(last.out)
  /\ inflight = <<>>
  /\ ~isLoading

\* C6: a submit and the completion of a submit, whatever its outcome, leave
\* every transcript a prefix of what it becomes
C6_AppendOnly ==
  [][(Submitted \/ Settled) =>
       \A k \in DOMAIN chatHistory :
         k \in DOMAIN chatHistory' /\ IsPrefix(chatHistory[k], chatHistory'[k])]_vars

C6_Witness ==
  /\ last.op = "settle"
  /\ ~throws(last.out)
  /\ Len(Get(chatHistory, answerSection(last.req, last.out))) > 3

\* C7: clear empties the transcript of the current section, keeps its key,
\* and leaves the other transcripts, the current section and the pending
\* flag as they were
C7_ClearIsLocal ==
  [][Cleared =>
       /\ DOMAIN chatHistory' = DOMAIN chatHistory \cup {currentSection}
       /\ chatHistory'[currentSection] = <<>>
       /\ \A k \in DOMAIN chatHistory \ {currentSection} : chatHistory'[k] = chatHistory[k]
       /\ currentSection' = currentSection
       /\ isLoading' = isLoading]_vars

C7_Witness ==
  /\ last.op = "clear"
  /\ isLoading
  /\ chatHistory[currentSection] = <<>>
  /\ \E k \in DOMAIN chatHistory : chatHistory[k] # <<>>

\* C8: the load keeps exactly the stored entries whose key is a catalog id,
\* each with its stored messages, an empty transcript included, and the
\* write-back leaves no other key in the store
C8_LoadFilters ==
  [][Mounted =>
       IF lsChat.present
       THEN /\ DOMAIN chatHistory' = DOMAIN lsChat.value \cap SectionIds
            /\ \A k \in DOMAIN chatHistory' : chatHistory'[k] = lsChat.value[k]
            /\ lsChat'.present
            /\ DOMAIN lsChat'.value = DOMAIN lsChat.value \cap SectionIds
            /\ \A k \in DOMAIN lsChat'.value : lsChat'.value[k] = lsChat.value[k]
       ELSE DOMAIN chatHistory' = {}]_vars

C8_Witness ==
  /\ last.op = "mount"
  /\ DOMAIN chatHistory = {"health", "banking"}
  /\ chatHistory["health"] = <<>>
  /\ Len(chatHistory["banking"]) = 2
  /\ RemovedId \notin DOMAIN lsChat.value

\* C9: a submit of an empty or all-blank text changes no transcript, does not
\* raise the pending flag, issues no fetch, and leaves the error notice and
\* the current section as they were
C9_BlankSubmitRejected ==
  [][(Submitted /\ IsBlank(last'.arg)) =>
       /\ chatHistory' = chatHistory
       /\ lsChat' = lsChat
       /\ isLoading' = isLoading
       /\ inflight' = inflight
       /\ error' = error
       /\ currentSection' = currentSection]_vars

C9_Witness ==
  /\ last.op = "submit"
  /\ last.arg = <<Space>>
  /\ ~isLoading
  /\ inflight = <<>>

\* a success whose payload lacks the response, or redirects nowhere usable
Malformed(out) ==
  /\ out.kind = "ok"
  /\ out.response = Undefined \/ (out.redirect /\ out.section \notin SectionIds)

\* C10: a success whose payload lacks a required field is a failure: nothing
\* is appended and the error notice is set
C10_MalformedIsFailure ==
  [][(Settled /\ Malformed(last'.out)) =>
       /\ chatHistory' = chatHistory
       /\ error']_vars

\* C11: in every transcript the timestamps never decrease from one position
\* to the next
C11_TimestampOrder ==
  \A k \in DOMAIN chatHistory :
    \A i, j \in 1..Len(chatHistory[k]) :
      i < j => chatHistory[k][i].timestamp <= chatHistory[k][j].timestamp

\* the assistant messages a step has appended: (section, index)
Appended == Assistants(chatHistory') \ Assistants(chatHistory)

\* C12: when a submit succeeds and an assistant message is appended, the
\* reveal is active after the step with that message, the last of its
\* transcript, as its target
C12_RevealStartsOnAnswer ==
  [][(Settled /\ Appended # {}) =>
       /\ reveal'.active
       /\ <<reveal'.section, reveal'.index>> \in Appended
       /\ reveal'.index = Len(chatHistory'[reveal'.section])]_vars

\* a step that abandons the reveal in progress: a submit that passes the
\* guard, a change of section, a clear
Interrupts ==
  /\ reveal.active /\ reveal.timer
  /\ \/ Submitted /\ ~IsBlank(last'.arg)
     \/ last'.op \in {"select", "back"}
     \/ Cleared

\* C13: a new submit, a change of section or a clear during a reveal leaves
\* no timer of the old reveal pending, what is mounted afterwards starts
\* from nothing, and the message that was being revealed, where the step
\* has not removed it, holds its full text
C13_RevealCancelled ==
  [][Interrupts =>
       LET k == reveal.section
           i == reveal.index
       IN /\ stale' = 0
          /\ reveal'.active => reveal'.currentIndex = 0 /\ reveal'.displayedText = <<>>
          /\ Cleared \/ i <= Len(Get(chatHistory', k))
          /\ i <= Len(Get(chatHistory', k)) => chatHistory'[k][i].content = reveal.text]_vars

C13_Witness ==
  /\ last.op = "back"
  /\ isTyping /\ inflight # <<>>
  /\ ~reveal.active
  /\ stale = 0
  /\ \E r \in {inflight[n] : n \in 1..Len(inflight)} :
       EndsWith(Get(chatHistory, r.section), <<r.userMessage>>)

\* the text shown is the prefix the index stands for, and a tick is
\* scheduled exactly while the text is not shown in full
PrefixShown ==
  reveal.active =>
    /\ reveal.currentIndex \in 0..Len(reveal.text)
    /\ reveal.displayedText = SubSeq(reveal.text, 1, reveal.currentIndex)
    /\ reveal.timer <=> reveal.displayedText # reveal.text

\* a tick adds one character to what is shown, and no other step adds any
OneCharacterPerTick ==
  /\ last'.op = "tick" =>
       /\ reveal.active /\ reveal'.active
       /\ reveal'.currentIndex = reveal.currentIndex + 1
       /\ Len(reveal'.displayedText) = Len(reveal.displayedText) + 1
       /\ IsPrefix(reveal.displayedText, reveal'.displayedText)
       /\ reveal'.text = reveal.text
  /\ last'.op # "tick" /\ reveal'.active =>
       reveal' = reveal \/ reveal'.displayedText = <<>>

\* C18: a reveal that has taken k ticks shows the first k characters of its
\* text, each tick adds exactly one character, k never passes the length of
\* the text, and no tick is scheduled once the text is shown in full
C18_RevealByPrefixes ==
  []PrefixShown /\ [][OneCharacterPerTick]_vars

C18_Witness ==
  /\ last.op = "tick"
  /\ reveal.active
  /\ Len(reveal.text) > 1
  /\ reveal.currentIndex = Len(reveal.text)
  /\ reveal.displayedText = reveal.text
  /\ ~reveal.timer

\* the transcripts a durable record holds, section by section
Durable(stored) == IF stored.present /\ stored.parses THEN stored.value ELSE EmptyHistory

\* once the startup load has completed the durable transcript record equals
\* the in-memory mapping, after every operation
WrittenThrough ==
  mounted /\ ~crashed => lsChat.present /\ lsChat.parses /\ lsChat.value = chatHistory

\* C14 as claimed: the durable record equals the in-memory mapping after
\* startup and after every operation, and never holds fewer messages of a
\* catalog section than were persisted before startup
C14_WriteThroughAsClaimed ==
  /\ WrittenThrough
  /\ \A k \in SectionIds :
       Len(Get(Durable(savedChat), k)) <= Len(Get(Durable(lsChat), k))

\* C14 amended: the durable record equals the in-memory mapping after
\* startup and after every operation, and no step other than a clear, the
\* startup load included, leaves a catalog section with fewer durable
\* messages than it had
C14_WriteThrough ==
  /\ []WrittenThrough
  /\ [][(~Cleared /\ lsChat' # lsChat) =>
          \A k \in SectionIds :
            Len(Get(Durable(lsChat), k)) <= Len(Get(Durable(lsChat'), k))]_vars

C14_Witness ==
  /\ last.op = "settle"
  /\ ~throws(last.out)
  /\ lsChat.value = chatHistory
  /\ Len(Get(lsChat.value, "banking")) = 4
  /\ SubSeq(lsChat.value["banking"], 1, 2)
       = <<Old("user", <<"a">>), Old("assistant", ResponseText)>>

\* C15: every step that changes the active section leaves the durable
\* active-section record equal to the new active section
C15_SectionWrittenBack ==
  [][(~crashed' /\ currentSection' # currentSection) => lsSection' = currentSection']_vars

\* C16: a session that found an unparseable transcript record at startup is
\* operable once started: its tree is mounted, nothing is pending, and its
\* transcript mapping is the empty one it began with
C16_UnreadableIsNotFatal ==
  (mounted /\ parseThrows(savedChat) /\ last.op = "mount") =>
    /\ ~crashed
    /\ ~isLoading
    /\ chatHistory = EmptyHistory

\* the request that has just been answered was submitted in a section that
\* is no longer the active one
AnsweredElsewhere ==
  /\ Settled
  /\ last'.out.kind = "ok"
  /\ last'.out.redirect => last'.out.section \in SectionIds
  /\ currentSection # last'.req.section

\* C20: when the answer to a request submitted in S arrives while S is not
\* the active section, a same-section answer is appended to the transcript
\* of S, no other transcript changes, that of the section then active
\* included, and the active section stays as it is; a redirect to T is
\* appended to the transcript of T and makes T active
C20_AnswerAfterNavigation ==
  [][AnsweredElsewhere =>
       LET req == last'.req
           out == last'.out
           to == IF out.redirect THEN out.section ELSE req.section
           before == Get(chatHistory, to)
           after == Get(chatHistory', to)
       IN /\ Len(before) < Len(after)
          /\ SubSeq(after, 1, Len(before)) = before
          /\ after[Len(after)].role = "assistant"
          /\ after[Len(after)].content = out.response
          /\ \A k \in DOMAIN chatHistory : k # to => chatHistory'[k] = chatHistory[k]
          /\ currentSection' = IF out.redirect THEN out.section ELSE currentSection]_vars

C20_Witness ==
  /\ last.op = "settle"
  /\ last.out.kind = "ok" /\ ~last.out.redirect
  /\ currentSection \notin {NoSection, last.req.section}
  /\ inflight = <<>>
  /\ EndsWith(Said(Get(chatHistory, last.req.section)),
              <<<<"user", last.req.userMessage.content>>, <<"assistant", last.out.response>>>>)
  /\ Assistants(chatHistory) \subseteq {<<last.req.section, Len(chatHistory[last.req.section])>>}

\* the text of a transcript, message after message: the blocks
\* '[timestamp] You|AI: content' with a blank line between two of them
RECURSIVE TextOf(_)
TextOf(h) ==
  IF h = <<>> THEN <<>>
  ELSE LET m == h[Len(h)]
           who == IF m.role = "user" THEN "You" ELSE "AI"
       IN TextOf(SubSeq(h, 1, Len(h) - 1))
            \o (IF Len(h) > 1 THEN <<"\n\n">> ELSE <<>>)
            \o <<"[", ToString(m.timestamp), "] ", who, ": ">> \o m.content

Exported == last'.op \in {"txt", "pdf"}

\* C17: an export changes no transcript, not the active section and not the
\* pending flag; with no active section it produces nothing; and the text
\* export is the blocks of the section's transcript, in order, joined by
\* blank lines, so the same transcript gives the same text
C17_ExportsOnlyRead ==
  [][Exported =>
       /\ chatHistory' = chatHistory
       /\ currentSection' = currentSection
       /\ isLoading' = isLoading
       /\ lsChat' = lsChat
       /\ currentSection = NoSection => output' = NoOutput
       /\ currentSection # NoSection => output'.kind = last'.op
       /\ (currentSection # NoSection /\ last'.op = "txt") =>
            output'.text = TextOf(Get(chatHistory, currentSection))]_vars

C17_Witness ==
  /\ last.op = "txt"
  /\ isLoading
  /\ currentSection = "general"
  /\ Len(chatHistory["general"]) = 3
  /\ output.kind = "txt"
  /\ output.text = <<"[", "0", "] ", "You", ": ", Space, "a", "\n\n",
                     "[", "0", "] ", "You", ": ", Space, "a", "\n\n",
                     "[", "1", "] ", "AI", ": ", "Y">>

\* what exportAsPDF draws for messages of these line counts: the title, then
\* for each message its header and its lines
RECURSIVE Drawn(_)
Drawn(lineCounts) ==
  IF lineCounts = <<>> THEN <<"title">>
  ELSE Drawn(SubSeq(lineCounts, 1, Len(lineCounts) - 1))
         \o <<"header">> \o [i \in 1..lineCounts[Len(lineCounts)] |-> "line"]

\* the offset added between two consecutive draws
Advance(from, to) ==
  CASE from = "title" -> 20
    [] from = "header" /\ to = "line" -> 10
    [] from = "header" /\ to = "header" -> 10 + 10
    [] from = "line" /\ to = "line" -> 7
    [] OTHER -> 7 + 10

\* C19: in the paginated export the title is drawn at 20 on the first page;
\* every header and line comes to the page test with the offset of the draw
\* before it plus that draw's advance, takes a new page and the offset 20
\* exactly when this offset exceeds 270, and is drawn at an offset from 20
\* to 270
C19_PageBreaks ==
  output.kind = "pdf" =>
    LET d == output.draws IN
    /\ [i \in 1..Len(d) |-> d[i].what] = Drawn(output.lines)
    /\ d[1].y = 20 /\ d[1].page = 1
    /\ \A i \in 2..Len(d) :
         /\ d[i].before = d[i - 1].y + Advance(d[i - 1].what, d[i].what)
         /\ IF d[i].before > 270
            THEN d[i].page = d[i - 1].page + 1 /\ d[i].y = 20
            ELSE d[i].page = d[i - 1].page /\ d[i].y = d[i].before
         /\ d[i].y >= 20 /\ d[i].y <= 270

C19_Witness ==
  /\ output.kind = "pdf"
  /\ output.lines = <<30, 35, 1>>
  /\ \E i \in 1..Len(output.draws) :
       output.draws[i].what = "header" /\ output.draws[i].y = 270
  /\ \E i \in 1..Len(output.draws) :
       output.draws[i].what = "line" /\ output.draws[i].before > 270
  /\ \E i \in 1..Len(output.draws) :
       output.draws[i].what = "header" /\ output.draws[i].before > 270
  /\ output.draws[Len(output.draws)].page > 2

\* the completion ended in the error outcome: the notice is set by the step
\* and no transcript has changed
EndedInError == Settled /\ error' /\ chatHistory' = chatHistory

\* C21: a completion that ends in the error outcome leaves the active
\* section as it was, a redirect that names no catalog section included
C21_ErrorKeepsSection ==
  [][EndedInError => currentSection' = currentSection]_vars

\* C22: in every transcript every assistant message comes right after a user
\* message: none is first and no two are adjacent
C22_AssistantFollowsUser ==
  \A k \in DOMAIN chatHistory :
    \A i \in 1..Len(chatHistory[k]) :
      chatHistory[k][i].role = "assistant" =>
        i > 1 /\ chatHistory[k][i - 1].role = "user"

C22_Witness ==
  /\ last.op = "settle"
  /\ last.out.kind = "ok" /\ ~last.out.redirect
  /\ last.req.section = "general"
  /\ Len(Get(chatHistory, "general")) = 2
  /\ chatHistory["general"][1] = last.req.userMessage
  /\ chatHistory["general"][2].role = "assistant"
  /\ Len(Get(chatHistory, "banking")) = 4

====
